---- MODULE Spec2Model ----
(***************************************************************************)
(* A model of "devspace up" (cmd/up.go) and of the cluster client it uses  *)
(* (pkg/devspace/clients/kubectl/client.go).                               *)
(*                                                                         *)
(* Time.  A time.Time is an instant (in ticks of the timestamp             *)
(* resolution, one nanosecond) together with the zone offset it is shown   *)
(* in.  Format(RFC3339Nano) renders the wall-clock reading and the offset; *)
(* Parse reads the instant back, and yields the zero time (the error is    *)
(* dropped by the caller) for a string that is no timestamp.               *)
(***************************************************************************)
EXTENDS Integers, Sequences, FiniteSets, TLC

\* ------------------------------------------------------------------ bounds

\* Dockerfile modification times range over the instants 1..MaxMTime.
MaxMTime == 2

\* Zone offsets (in ticks) the process may run under, now or in an earlier run.
Zones == {0, 1}

\* The images of the configuration (config.Images, a Go map).
Images == {"a", "b"}

\* Release revisions range over 1..MaxRev, numeric revision annotations
\* over -1..MaxRev.
MaxRev == 3

\* The pod list of a release holds at most MaxPods pods.
MaxPods == 3

\* The polls of release-pod resolution a run is followed through.
MaxPolls == 2

\* ------------------------------------------------------------- time.Time

\* The zero time.Time: year 1, UTC.  No file system reports it as a
\* modification time, so modification times start at instant 1.
ZeroTime == [inst |-> 0, off |-> 0]

\* A *string holding a timestamp: nil, text that is no RFC3339 timestamp,
\* or the wall-clock reading with its zone offset.
NilString == [kind |-> "nil", wall |-> 0, off |-> 0]

BadString == [kind |-> "bad", wall |-> 0, off |-> 0]

\* t.Format(time.RFC3339Nano)
Format(t) == [kind |-> "ok", wall |-> t.inst + t.off, off |-> t.off]

\* time.Parse(time.RFC3339Nano, s), error dropped: the zero time on failure.
Parse(s) == IF s.kind = "ok" THEN [inst |-> s.wall - s.off, off |-> s.off] ELSE ZeroTime

\* t.Equal(u): the same instant, whatever the zones.
Equal(t, u) == t.inst = u.inst

\* t.After(u)
After(t, u) == t.inst > u.inst

\* The timestamp strings a record may hold when a run starts: none, text
\* edited by hand, the zero time written by an earlier run, or the
\* modification time seen by an earlier run under any zone.
TimestampStrings ==
    {NilString, BadString, Format(ZeroTime)}
        \cup {Format([inst |-> i, off |-> z]) : i \in 1..MaxMTime, z \in Zones}

\* os.Stat of a Dockerfile: missing, or present with a modification time.
MissingFile == [exists |-> FALSE, inst |-> 0]

FileStates == {MissingFile} \cup {[exists |-> TRUE, inst |-> i] : i \in 1..MaxMTime}

\* ----------------------------------------------------------- shouldRebuild

\* The comparison of shouldRebuild with "newer than" in place of "differs".
NeedsRebuildNewer(latest, modTime) == After(modTime, Parse(latest))

\* up.go:266-269: rebuild when the Dockerfile's modification time differs
\* from the parsed stored timestamp.
NeedsRebuild(latest, modTime) == Equal(Parse(latest), modTime) = FALSE

\* shouldRebuild with the explicit build flag ignored.
ShouldRebuildFlagIgnored(latest, file, location, buildFlagChanged) ==
    LET modTime == IF file.exists THEN [inst |-> file.inst, off |-> location] ELSE ZeroTime
    IN  IF ~file.exists
        THEN [fatal |-> latest = NilString, mustRebuild |-> FALSE,
              LatestTimestamp |-> IF latest = NilString THEN latest ELSE Format(modTime)]
        ELSE [fatal |-> FALSE,
              mustRebuild |-> IF latest # NilString
                              THEN NeedsRebuild(latest, modTime) ELSE TRUE,
              LatestTimestamp |-> Format(modTime)]

\* shouldRebuild that still asks for a rebuild when the Dockerfile is missing.
ShouldRebuildMissingRebuilds(latest, file, location, buildFlagChanged) ==
    LET modTime == IF file.exists THEN [inst |-> file.inst, off |-> location] ELSE ZeroTime
    IN  IF ~file.exists
        THEN [fatal |-> latest = NilString, mustRebuild |-> TRUE,
              LatestTimestamp |-> IF latest = NilString THEN latest ELSE Format(modTime)]
        ELSE [fatal |-> FALSE,
              mustRebuild |-> IF buildFlagChanged = FALSE /\ latest # NilString
                              THEN NeedsRebuild(latest, modTime) ELSE TRUE,
              LatestTimestamp |-> Format(modTime)]

\* shouldRebuild that writes the timestamp only when the Dockerfile exists.
ShouldRebuildKeepsOnMissing(latest, file, location, buildFlagChanged) ==
    LET modTime == IF file.exists THEN [inst |-> file.inst, off |-> location] ELSE ZeroTime
    IN  IF ~file.exists
        THEN [fatal |-> latest = NilString, mustRebuild |-> FALSE,
              LatestTimestamp |-> latest]
        ELSE [fatal |-> FALSE,
              mustRebuild |-> IF buildFlagChanged = FALSE /\ latest # NilString
                              THEN NeedsRebuild(latest, modTime) ELSE TRUE,
              LatestTimestamp |-> Format(modTime)]

\* up.go:248-276.  latest is imageConf.Build.LatestTimestamp, file the
\* result of os.Stat, location the local zone ModTime() is reported in.  The
\* result holds the return value, whether log.Fatalf ended the process
\* (line 256, before the write of line 273), and the timestamp the record
\* holds afterwards.
shouldRebuild(latest, file, location, buildFlagChanged) ==
    LET modTime == IF file.exists THEN [inst |-> file.inst, off |-> location] ELSE ZeroTime
    IN  IF ~file.exists
        THEN [fatal |-> latest = NilString, mustRebuild |-> FALSE,
              LatestTimestamp |-> IF latest = NilString THEN latest ELSE Format(modTime)]
        ELSE [fatal |-> FALSE,
              mustRebuild |-> IF buildFlagChanged = FALSE /\ latest # NilString
                              THEN NeedsRebuild(latest, modTime) ELSE TRUE,
              LatestTimestamp |-> Format(modTime)]

\* ------------------------------------------------------------------ state

VARIABLES
    pc,             \* position of Run
    flags,          \* cmd.flags, and whether --build was given explicitly
    clusterConfig,  \* config.Cluster # nil
    zone,           \* the local zone of this process
    files,          \* the Dockerfile of each image, as os.Stat sees it
    conf,           \* config.Images in memory: LatestTimestamp and Tag
    saved,          \* config.Images as persisted by SaveConfig
    saved0,         \* the persisted records when the run started
    todo,           \* images the range loop of buildImages has not reached
    re,             \* the local re of buildImages
    nextTag,        \* the next tag randutil.GenerateRandomString yields
    sr,             \* the last call of shouldRebuild: arguments and result
    outcome,        \* what buildImages did with each image
    mustRedeploy,   \* the local mustRedeploy of Run
    lookup,         \* what getRunningDevSpacePod returned: err and pod
    deployCalls,    \* the calls of deployChart
    releaseRevision,\* appRelease.Version of the deploy, 0 before it returns
    polls,          \* the pod listings of release-pod resolution so far
    podList,        \* podList.Items of the last listing
    selectedPod,    \* selectedPod of the last listing
    highestRevision,\* highestRevision of the last listing
    cmdPod,         \* cmd.pod
    podAssigns,     \* the assignments to cmd.pod
    ready,          \* the result of waitForPodReady
    pfConf,         \* config.DevSpace.PortForwarding
    pfIdx,          \* mappings startPortForwarding has been through
    pfLog,          \* what startPortForwarding reported, in order
    tunnels,        \* the ForwardPorts goroutines started
    syncState,      \* what startSync did
    terminal,       \* what enterTerminal did
    waitArgs,       \* a call of waitForPodReady on its own: its arguments
    tasks,          \* the ForwardPorts goroutines, in the order started
    timer,          \* the time.After of the select of startPortForwarding
    woken,          \* the case that has woken that select
    session,        \* a call of Exec or ExecBuffered: its caller and result
    stream,         \* exec.Stream: what the remote command has yet to write
    pipes,          \* the three os.Pipe of buffered mode
    worker,         \* position of the goroutine of Exec
    drains,         \* the io.Copy goroutines and their sync.WaitGroup
    delivered,      \* the errors received from errorChannel
    cluster,        \* the namespaces that exist in the cluster
    releaseNamespace, \* config.DevSpace.Release.Namespace
    ns,             \* ensureNamespace step by step: position and answers
    listing,        \* what Pods(namespace).List answers GetFirstRunningPod
    first           \* a call of GetFirstRunningPod: what it scanned and returned

buildVars == <<zone, files, conf, saved, saved0, todo, re, nextTag, sr, outcome>>

runVars ==
    <<lookup, deployCalls, releaseRevision, polls, podList, selectedPod,
      highestRevision, cmdPod, podAssigns, ready, pfConf, pfIdx, pfLog, tunnels,
      syncState, terminal>>

resolveVars == <<polls, podList, selectedPod, highestRevision>>

pfVars == <<pfConf, pfIdx, pfLog, tunnels>>

\* The state of calls made outside a run of devspace up.
fwVars == <<tasks, timer, woken>>

execVars == <<session, stream, pipes, worker, drains, delivered>>

nsVars == <<cluster, releaseNamespace, ns>>

podVars == <<listing, first>>

callVars == <<waitArgs, fwVars, execVars, nsVars, podVars>>

\* The call state that port forwarding leaves alone.
callsButFw == <<waitArgs, execVars, nsVars, podVars>>

\* The call state that Exec leaves alone.
callsButExec == <<waitArgs, fwVars, nsVars, podVars>>

\* The call state that ensureNamespace leaves alone.
callsButNs == <<waitArgs, fwVars, execVars, podVars>>

\* The call state that GetFirstRunningPod leaves alone.
callsButPods == <<waitArgs, fwVars, execVars, nsVars>>

vars == <<pc, flags, clusterConfig, buildVars, mustRedeploy, runVars, callVars>>

\* waitForPodReady is not being called on its own.
NoWaitArgs == [maxWaitTime |-> 0, checkInterval |-> 0, obs |-> [at |-> 0, what |-> "ready"]]

\* No tunnel has been started.
InitNoForward ==
    /\ tasks = <<>>
    /\ timer = "off"
    /\ woken = "none"

\* An os.Pipe: the bytes written and not yet read, and whether its write
\* end is closed.
NewPipe == [buf |-> <<>>, closed |-> FALSE]

NoPipes == [made |-> FALSE, stdin |-> NewPipe, stdout |-> NewPipe, stderr |-> NewPipe]

NoReturn == [err |-> "none", stdout |-> <<>>, stderr |-> <<>>]

NoDrains ==
    [on |-> FALSE, pending |-> 0, stdout |-> [buf |-> <<>>, done |-> FALSE],
     stderr |-> [buf |-> <<>>, done |-> FALSE]]

\* Exec has not been called with the command whose output is todo.
InitNoExec(modes, todos) ==
    /\ \E m \in modes :
          session = [mode |-> m, pc |-> "call", ret |-> NoReturn,
                     errorChannel |-> IF m = "exec" THEN "chan" ELSE "nil"]
    /\ \E t \in todos :
          stream = [st |-> "idle", result |-> "none", todo |-> t,
                    wrote |-> [stdout |-> <<>>, stderr |-> <<>>]]
    /\ pipes = NoPipes
    /\ worker = "none"
    /\ drains = NoDrains
    /\ delivered = <<>>

NothingToWrite == [stdout |-> <<>>, stderr |-> <<>>]

\* ensureNamespace has asked the cluster nothing yet.
NoAnswers == [pc |-> "get", get |-> "none", create |-> "none", ret |-> "none"]

\* ensureNamespace is not followed step by step.
InitNoNamespace ==
    /\ cluster = {}
    /\ releaseNamespace = "default"
    /\ ns = NoAnswers

\* GetFirstRunningPod has not been called.
NotCalled == [called |-> FALSE, err |-> FALSE, index |-> 0, statuses |-> <<>>]

\* GetFirstRunningPod is not followed.
InitNoPods ==
    /\ listing = [err |-> FALSE, items |-> <<>>]
    /\ first = NotCalled

\* No function is being called outside a run.
InitCallState ==
    /\ waitArgs = NoWaitArgs
    /\ InitNoForward
    /\ InitNoExec({"none"}, {NothingToWrite})
    /\ InitNoNamespace
    /\ InitNoPods

\* An image record: Build.LatestTimestamp and Tag (0: nil).
InitialRecord(ts) == [LatestTimestamp |-> ts, Tag |-> IF ts = NilString THEN 0 ELSE 1]

NoCall ==
    [called |-> FALSE, img |-> "a", prior |-> NilString, file |-> MissingFile,
     flag |-> FALSE, fatal |-> FALSE, ret |-> FALSE, after |-> NilString]

\* The steps of a build that can fail, each ending the process through
\* log.Fatalf (up.go:299-403), and a build that succeeds.
BuildOutcomes ==
    {"randErr", "registryErr", "builderErr", "authErr", "buildErr", "pushErr",
     "saveErr", "ok"}

\* The records, files and zone a run starts with: what is persisted is what
\* GetConfig loaded.
InitBuildState(tsDomain, fileDomain, zoneDomain) ==
    /\ zone \in zoneDomain
    /\ files \in [Images -> fileDomain]
    /\ \E ts \in [Images -> tsDomain] :
          conf = [i \in Images |-> InitialRecord(ts[i])]
    /\ saved = conf
    /\ saved0 = conf
    /\ todo = Images
    /\ re = FALSE
    /\ nextTag = 2
    /\ sr = NoCall
    /\ outcome = [i \in Images |-> "none"]
    /\ mustRedeploy = FALSE

\* ------------------------------------------------------------ buildImages

\* up.go:283-409, one iteration of the range loop, for the image the map
\* iteration yields next: shouldRebuild, then either the skip of line 407 or
\* the build, push, tag and SaveConfig of lines 298-405.
BuildImagesStep(img) ==
    /\ pc = "buildImages"
    /\ img \in todo
    /\ LET latest == conf[img].LatestTimestamp
           r == shouldRebuild(latest, files[img], zone, flags.buildChanged)
           stamped == [conf EXCEPT ![img].LatestTimestamp = r.LatestTimestamp]
           tagged == [stamped EXCEPT ![img].Tag = nextTag]
       IN  /\ sr' = [called |-> TRUE, img |-> img, prior |-> latest,
                     file |-> files[img], flag |-> flags.buildChanged,
                     fatal |-> r.fatal, ret |-> r.mustRebuild,
                     after |-> r.LatestTimestamp]
           /\ IF r.fatal
              THEN /\ pc' = "fatal"
                   /\ outcome' = [outcome EXCEPT ![img] = "dockerfileMissing"]
                   /\ UNCHANGED <<conf, saved, re, nextTag, todo>>
              ELSE IF ~r.mustRebuild
              THEN /\ conf' = stamped
                   /\ outcome' = [outcome EXCEPT ![img] = "skipped"]
                   /\ todo' = todo \ {img}
                   /\ UNCHANGED <<pc, saved, re, nextTag>>
              ELSE \E o \in BuildOutcomes :
                   /\ re' = TRUE
                   /\ outcome' = [outcome EXCEPT ![img] = o]
                   /\ nextTag' = IF o = "randErr" THEN nextTag ELSE nextTag + 1
                   /\ conf' = IF o \in {"ok", "saveErr"} THEN tagged ELSE stamped
                   /\ saved' = IF o = "ok" THEN tagged ELSE saved
                   /\ pc' = IF o = "ok" THEN pc ELSE "fatal"
                   /\ todo' = IF o = "ok" THEN todo \ {img} ELSE todo
    /\ UNCHANGED <<flags, clusterConfig, callVars, zone, files, saved0, mustRedeploy,
                   runVars>>

\* up.go:410 and 147: the loop is over, buildImages returns re.
BuildImagesReturn ==
    /\ pc = "buildImages"
    /\ todo = {}
    /\ mustRedeploy' = re
    /\ pc' = "lookup"
    /\ UNCHANGED <<flags, clusterConfig, callVars, buildVars, runVars>>

\* ------------------------------------------------------------------- pods

\* The "revision" annotation of a pod: absent, text that is no number, or
\* a number.
NoRevision == [has |-> FALSE, num |-> FALSE, val |-> 0]

BadRevision == [has |-> TRUE, num |-> FALSE, val |-> 0]

Revision(n) == [has |-> TRUE, num |-> TRUE, val |-> n]

\* strconv.Atoi of pod.Annotations["revision"], error dropped: 0 for the
\* empty string of an absent annotation and for text that is no number.
Atoi(a) == IF a.has /\ a.num THEN a.val ELSE 0

Annotations == {NoRevision, BadRevision} \cup {Revision(n) : n \in (-1)..MaxRev}

\* A nil *k8sv1.Pod.
NoPod == [name |-> 0, ann |-> NoRevision]

\* The running release pod getRunningDevSpacePod finds.
RunningPod == [name |-> 9, ann |-> Revision(1)]

\* The pod lists of at most maxLen pods with annotations from anns, the
\* pods named by their place in the list.
PodListsOf(anns, maxLen) ==
    UNION {{[i \in 1..n |-> [name |-> i, ann |-> f[i]]] : f \in [1..n -> anns]} :
           n \in 0..maxLen}

PodLists == PodListsOf(Annotations, MaxPods)

\* The pod lists a whole run is followed through.
RunPodLists == PodListsOf({NoRevision, Revision(1)}, 1) \cup PodListsOf({Revision(1), Revision(2)}, 2)

\* The scan of up.go:502-518 with ">=" in place of ">".
HasHigherRevisionOrEqual(i, ann, highest) ==
    (i = 1) \/ (ann.has /\ Atoi(ann) >= highest)

\* up.go:503-512: the first pod, or a pod carrying an annotation that reads
\* as a number strictly greater than the highest so far.
HasHigherRevision(i, ann, highest) ==
    (i = 1) \/ (ann.has /\ Atoi(ann) > highest)

RECURSIVE SelectFrom(_, _, _, _)
\* up.go:499-518: the scan of podList.Items from pod i on.
SelectFrom(list, i, selected, highest) ==
    IF i > Len(list)
    THEN [pod |-> selected, highestRevision |-> highest]
    ELSE IF HasHigherRevision(i, list[i].ann, highest)
         THEN SelectFrom(list, i + 1, list[i], Atoi(list[i].ann))
         ELSE SelectFrom(list, i + 1, selected, highest)

\* up.go:499-519, for a non-empty list.
SelectPod(list) == SelectFrom(list, 1, NoPod, 0)

\* Acceptance with "at least the deployed revision".
AcceptsAtLeast(hasRevision, highest, revision) ==
    ~hasRevision \/ highest >= revision

\* up.go:521: the selected pod is accepted.
Accepts(hasRevision, highest, revision) ==
    ~hasRevision \/ highest = revision

\* -------------------------------------------------------- waitForPodReady

\* waitForPodReady(cmd.kubectl, cmd.pod, 2*60*time.Second, 5*time.Second),
\* in seconds.
ReadyMaxWait == 120

ReadyInterval == 5

\* What the polls of a pod observe: nothing but "not ready" until poll
\* obs.at, where the pod is ready or the fetch fails; never, if obs.at = 0.
ObservedAt(obs, i) == IF obs.at = i THEN obs.what ELSE "notready"

RECURSIVE WaitLoopWholeIntervals(_, _, _, _)
\* The loop going on only while a whole interval is left to wait.
WaitLoopWholeIntervals(maxWaitTime, checkInterval, obs, n) ==
    IF maxWaitTime >= checkInterval
    THEN LET o == ObservedAt(obs, n + 1)
         IN  IF o = "error"
             THEN [err |-> "fetch", polls |-> n + 1, sleeps |-> n]
             ELSE IF o = "ready"
             THEN [err |-> "nil", polls |-> n + 1, sleeps |-> n]
             ELSE WaitLoopWholeIntervals(maxWaitTime - checkInterval, checkInterval,
                                         obs, n + 1)
    ELSE [err |-> "timeout", polls |-> n, sleeps |-> n]

RECURSIVE WaitLoopSleepsOnError(_, _, _, _)
\* The loop sleeping one more interval before it returns a failed fetch.
WaitLoopSleepsOnError(maxWaitTime, checkInterval, obs, n) ==
    IF maxWaitTime > 0
    THEN LET o == ObservedAt(obs, n + 1)
         IN  IF o = "error"
             THEN [err |-> "fetch", polls |-> n + 1, sleeps |-> n + 1]
             ELSE IF o = "ready"
             THEN [err |-> "nil", polls |-> n + 1, sleeps |-> n]
             ELSE WaitLoopSleepsOnError(maxWaitTime - checkInterval, checkInterval,
                                        obs, n + 1)
    ELSE [err |-> "timeout", polls |-> n, sleeps |-> n]

RECURSIVE WaitLoop(_, _, _, _)
\* up.go:678-693, after n polls.
WaitLoop(maxWaitTime, checkInterval, obs, n) ==
    IF maxWaitTime > 0
    THEN LET o == ObservedAt(obs, n + 1)
         IN  IF o = "error"
             THEN [err |-> "fetch", polls |-> n + 1, sleeps |-> n]
             ELSE IF o = "ready"
             THEN [err |-> "nil", polls |-> n + 1, sleeps |-> n]
             ELSE WaitLoop(maxWaitTime - checkInterval, checkInterval, obs, n + 1)
    ELSE [err |-> "timeout", polls |-> n, sleeps |-> n]

\* up.go:677-694
waitForPodReady(maxWaitTime, checkInterval, obs) ==
    WaitLoop(maxWaitTime, checkInterval, obs, 0)

NotWaited == [err |-> "none", polls |-> 0, sleeps |-> 0]

\* The polls at which a run's release pod becomes ready or disappears.
ReadyObservations ==
    {[at |-> 0, what |-> "notready"]}
        \cup {[at |-> k, what |-> w] : k \in {1, 24}, w \in {"ready", "error"}}

\* ------------------------------------------------------------------- Run

\* A port mapping: its resource type, and whether it has a label selector.
PodMapping == [kind |-> "pod", selector |-> TRUE]

ServiceMapping == [kind |-> "service", selector |-> TRUE]

BareMapping == [kind |-> "pod", selector |-> FALSE]

\* Run has not looked for a running release pod yet.
InitDeployState ==
    /\ lookup = [err |-> FALSE, pod |-> NoPod]
    /\ deployCalls = 0
    /\ releaseRevision = 0
    /\ polls = 0

\* No pod has been listed or selected, and nothing later has happened.
InitLaterState(pfDomain) ==
    /\ podList = <<>>
    /\ selectedPod = NoPod
    /\ highestRevision = 0
    /\ cmdPod = NoPod
    /\ podAssigns = 0
    /\ ready = NotWaited
    /\ pfConf \in pfDomain
    /\ pfIdx = 0
    /\ pfLog = <<>>
    /\ tunnels = 0
    /\ syncState = "none"
    /\ terminal = "none"

\* A configuration is made whether or not there is a cluster section.
GetClientConfigNeverFails(hasCluster) == "nil"

\* client.go:206-222, the error GetClientConfig returns: none with a
\* cluster section in the configuration, "Couldn't load cluster config"
\* without.
GetClientConfig(hasCluster) == IF hasCluster THEN "nil" ELSE "config"

\* up.go:129-132 with client.go:35-43, 206-211: the client is created, or
\* the run ends because the configuration holds no cluster.
NewClient ==
    /\ pc = "newClient"
    /\ pc' = IF GetClientConfig(clusterConfig) = "nil" THEN "ensureNamespace"
             ELSE "fatal"
    /\ UNCHANGED <<flags, clusterConfig, callVars, buildVars, mustRedeploy, runVars>>

\* up.go:134-137 with 175-195: the namespace is found, or created; an error
\* of Create, "already exists" included, ends the run.
EnsureNamespace ==
    /\ pc = "ensureNamespace"
    /\ \E get \in {"found", "error"}, create \in {"created", "alreadyExists", "error"} :
          pc' = IF get = "found" \/ create = "created" THEN "initHelm" ELSE "fatal"
    /\ UNCHANGED <<flags, clusterConfig, callVars, buildVars, mustRedeploy, runVars>>

\* up.go:139-148 with 413-426 and 197-246: the helm client and the
\* registries are set up, or the run ends; then the build, if asked for.
\* The SaveConfig of line 215 persists records no one has touched yet.
InitHelmAndRegistries ==
    /\ pc = "initHelm"
    /\ \E ok \in BOOLEAN :
          pc' = IF ~ok THEN "fatal"
                ELSE IF flags.build THEN "buildImages" ELSE "lookup"
    /\ UNCHANGED <<flags, clusterConfig, callVars, buildVars, mustRedeploy, runVars>>

\* The condition of up.go:153 without the lookup error.
NeedsDeployIgnoresError(err, redeploy, deployFlag) == redeploy \/ deployFlag

\* The condition of up.go:153 without the deploy flag.
NeedsDeployIgnoresFlag(err, redeploy, deployFlag) == err \/ redeploy

\* up.go:153
NeedsDeploy(err, redeploy, deployFlag) == err \/ redeploy \/ deployFlag

\* getRunningDevSpacePod: the running pod of the release, or an error when
\* there is none or the lookup fails.
RunningDevSpacePodResults ==
    {[err |-> FALSE, pod |-> RunningPod], [err |-> TRUE, pod |-> NoPod]}

\* up.go:150-157: the lookup of a running release pod, then either the
\* entry into deployChart or the reuse of the pod found.
LookupAndDecide ==
    /\ pc = "lookup"
    /\ \E r \in RunningDevSpacePodResults :
          /\ lookup' = r
          /\ IF NeedsDeploy(r.err, mustRedeploy, flags.deploy)
             THEN /\ pc' = "deployChart"
                  /\ deployCalls' = deployCalls + 1
                  /\ UNCHANGED <<cmdPod, podAssigns>>
             ELSE /\ pc' = "portForwarding"
                  /\ cmdPod' = r.pod
                  /\ podAssigns' = podAssigns + 1
                  /\ UNCHANGED deployCalls
    /\ UNCHANGED <<flags, clusterConfig, callVars, buildVars, mustRedeploy,
                   releaseRevision,
                   resolveVars, ready, pfVars, syncState, terminal>>

\* up.go:428-486: the chart values are read and the chart installed; either
\* failing ends the run, otherwise the release revision is known.
InstallChart ==
    /\ pc = "deployChart"
    /\ \/ pc' = "fatal" /\ UNCHANGED releaseRevision
       \/ \E v \in 1..MaxRev : releaseRevision' = v /\ pc' = "resolve"
    /\ UNCHANGED <<flags, clusterConfig, callVars, buildVars, mustRedeploy, lookup,
                   deployCalls,
                   resolveVars, cmdPod, podAssigns, ready, pfVars, syncState, terminal>>

\* up.go:490-496: the listing fails, log.Panicf.
PollListFails ==
    /\ pc = "resolve"
    /\ polls < MaxPolls
    /\ polls' = polls + 1
    /\ pc' = "panic"
    /\ UNCHANGED <<flags, clusterConfig, callVars, buildVars, mustRedeploy, lookup,
                   deployCalls,
                   releaseRevision, podList, selectedPod, highestRevision, cmdPod,
                   podAssigns, ready, pfVars, syncState, terminal>>

\* up.go:489-541, one turn of the loop with the listing list: nothing
\* listed, or a pod selected and either accepted as cmd.pod (its readiness
\* is awaited next) or left for the next turn, which nothing but the
\* two-second sleep of line 541 precedes: the loop has no counter and no
\* deadline.
PollTurn(list) ==
    /\ pc = "resolve"
    /\ podList' = list
    /\ IF Len(list) > 0
       THEN LET sel == SelectPod(list)
            IN  /\ selectedPod' = sel.pod
                /\ highestRevision' = sel.highestRevision
                /\ IF Accepts(sel.pod.ann.has, sel.highestRevision, releaseRevision)
                   THEN /\ cmdPod' = sel.pod
                        /\ podAssigns' = podAssigns + 1
                        /\ pc' = "waitForPodReady"
                   ELSE UNCHANGED <<pc, cmdPod, podAssigns>>
       ELSE UNCHANGED <<pc, selectedPod, highestRevision, cmdPod, podAssigns>>
    /\ UNCHANGED <<flags, clusterConfig, callVars, buildVars, mustRedeploy, lookup,
                   deployCalls,
                   releaseRevision, ready, pfVars, syncState, terminal>>

\* A turn of the loop that the model counts, up to MaxPolls of them.
Poll(list) ==
    /\ polls < MaxPolls
    /\ polls' = polls + 1
    /\ PollTurn(list)

\* A turn of the loop past the MaxPolls-th: the count stays where it is.
PollAgain(list) ==
    /\ polls = MaxPolls
    /\ polls' = polls
    /\ PollTurn(list)

\* The check of up.go:529 dropped: on to the next phase whatever the wait said.
AfterWaitIgnoresError(err) == "portForwarding"

\* up.go:529-533 and 159: a failed wait ends the run, otherwise deployChart
\* returns and Run goes on.
AfterWait(err) == IF err # "nil" THEN "fatal" ELSE "portForwarding"

\* up.go:527 with 677-694: the readiness wait for the accepted pod.
WaitForPodReady ==
    /\ pc = "waitForPodReady"
    /\ \E obs \in ReadyObservations :
          LET r == waitForPodReady(ReadyMaxWait, ReadyInterval, obs)
          IN  /\ ready' = r
              /\ pc' = AfterWait(r.err)
    /\ UNCHANGED <<flags, clusterConfig, callVars, buildVars, mustRedeploy, lookup,
                   deployCalls,
                   releaseRevision, resolveVars, cmdPod, podAssigns, pfVars, syncState,
                   terminal>>

\* What GetFirstRunningPod and the tunnel do for a mapping.
TunnelOutcomes == {"listError", "noPod", "ready", "timeout"}

\* up.go:612-650: what a mapping meets.
MappingOutcomes(m) ==
    IF m.kind # "pod" THEN {"unsupported"}
    ELSE IF ~m.selector THEN {"noSelector"}
    ELSE TunnelOutcomes

\* A tunnel that does not start in time taken as the end of the run.
AfterMappingTimeoutFatal(o) == IF o = "timeout" THEN "fatal" ELSE "portForwarding"

\* up.go:611-652: no branch of the loop body returns or ends the process;
\* whatever a mapping met, the loop is still in startPortForwarding.
AfterMapping(o) == "portForwarding"

\* up.go:159-161 and 611-652, one mapping: a resource type other than pod
\* is reported, a mapping without selector passed over, and otherwise the
\* pod is looked up and, if found, the tunnel started and its ready signal
\* awaited for five seconds.  Nothing here ends the run.
StartPortForwardingStep ==
    /\ pc = "portForwarding"
    /\ flags.portforwarding
    /\ pfIdx < Len(pfConf)
    /\ pfIdx' = pfIdx + 1
    /\ \E o \in MappingOutcomes(pfConf[pfIdx + 1]) :
          /\ pc' = AfterMapping(o)
          /\ CASE o = "unsupported" ->
                     pfLog' = Append(pfLog, "unsupported") /\ UNCHANGED tunnels
               [] o = "noSelector" -> UNCHANGED <<pfLog, tunnels>>
               [] o = "listError" ->
                     pfLog' = Append(pfLog, "listError") /\ UNCHANGED tunnels
               [] o = "noPod" -> UNCHANGED <<pfLog, tunnels>>
               [] o = "ready" ->
                     pfLog' = Append(pfLog, "started") /\ tunnels' = tunnels + 1
               [] o = "timeout" ->
                     pfLog' = Append(pfLog, "timeout") /\ tunnels' = tunnels + 1
    /\ UNCHANGED <<flags, clusterConfig, callVars, buildVars, mustRedeploy, lookup,
                   deployCalls, releaseRevision, resolveVars, cmdPod, podAssigns, ready,
                   pfConf, syncState, terminal>>

\* up.go:159-163: port forwarding is off, or every mapping has been seen.
PortForwardingDone ==
    /\ pc = "portForwarding"
    /\ ~flags.portforwarding \/ pfIdx = Len(pfConf)
    /\ pc' = IF flags.sync THEN "startSync" ELSE "enterTerminal"
    /\ UNCHANGED <<flags, clusterConfig, callVars, buildVars, mustRedeploy, runVars>>

\* up.go:163-170 with 547-606: a sync path that cannot be resolved or a
\* failing pod listing panics, a failing Start ends the run, and otherwise
\* the session is started, or passed over when no pod is running.
StartSync ==
    /\ pc = "startSync"
    /\ \E o \in {"absPanic", "listPanic", "noPod", "startError", "started"} :
          /\ syncState' = o
          /\ pc' = CASE o \in {"absPanic", "listPanic"} -> "panic"
                     [] o = "startError" -> "fatal"
                     [] OTHER -> "enterTerminal"
    /\ UNCHANGED <<flags, clusterConfig, callVars, buildVars, mustRedeploy, lookup,
                   deployCalls,
                   releaseRevision, resolveVars, cmdPod, podAssigns, ready, pfVars,
                   terminal>>

\* Every error of the session taken as fatal, exit codes included.
AfterTerminalAnyErrorFatal(o) == IF o = "clean" THEN "done" ELSE "fatal"

\* up.go:670-674: no error, or a CodeExitError, lets enterTerminal and with
\* it Run return; any other error is fatal.
AfterTerminal(o) == IF o \in {"exitCode", "clean"} THEN "done" ELSE "fatal"

\* up.go:172 with 655-675 and client.go:256-313: the interactive session on
\* cmd.pod.  Exec returns once the stream has ended, or before it started
\* when the executor cannot be built; only an exit code of the remote shell
\* is no error for the run.
EnterTerminal ==
    /\ pc = "enterTerminal"
    /\ IF cmdPod = NoPod
       THEN terminal' = "nilPod" /\ pc' = "panic"
       ELSE \E o \in {"executorError", "streamError", "exitCode", "clean"} :
               /\ terminal' = o
               /\ pc' = AfterTerminal(o)
    /\ UNCHANGED <<flags, clusterConfig, callVars, buildVars, mustRedeploy, lookup,
                   deployCalls, releaseRevision, resolveVars, cmdPod, podAssigns, ready,
                   pfVars, syncState>>

\* ---------------------------------------------- buildImages on its own

\* buildImages entered, as Run enters it at up.go:147 with --build in
\* force, for every record, Dockerfile state, zone and explicit-flag value.
InitBuild ==
    /\ pc = "buildImages"
    /\ \E c \in BOOLEAN :
          flags = [build |-> TRUE, buildChanged |-> c, deploy |-> FALSE,
                   portforwarding |-> TRUE, sync |-> TRUE]
    /\ clusterConfig = TRUE
    /\ InitBuildState(TimestampStrings, FileStates, Zones)
    /\ InitDeployState
    /\ InitLaterState({<<PodMapping>>})
    /\ InitCallState

NextBuild ==
    \/ \E img \in Images : BuildImagesStep(img)
    \/ BuildImagesReturn

SpecBuild == InitBuild /\ [][NextBuild]_vars

\* ------------------------------------------------- buildImages, run after run

\* The image whose Dockerfile is not modified between the runs.
Kept == "a"

\* Its Dockerfile, as it was when the image was last built.
KeptFile == [exists |-> TRUE, inst |-> 1]

\* The Dockerfiles the runs may find: the one of the kept image as it was
\* or missing for a while, the others in any state.
RunFiles == {f \in [Images -> FileStates] : f[Kept] \in {MissingFile, KeptFile}}

\* The first of the runs enters buildImages without an explicit --build
\* (the flag is on by default).  The kept image was built and saved by an
\* earlier run, under any zone, from the Dockerfile it still has.
InitRuns ==
    /\ pc = "buildImages"
    /\ flags = [build |-> TRUE, buildChanged |-> FALSE, deploy |-> FALSE,
                portforwarding |-> FALSE, sync |-> FALSE]
    /\ clusterConfig = TRUE
    /\ zone \in Zones
    /\ files \in RunFiles
    /\ \E ts \in [Images -> TimestampStrings] :
          /\ \E z \in Zones : ts[Kept] = Format([inst |-> KeptFile.inst, off |-> z])
          /\ conf = [i \in Images |-> InitialRecord(ts[i])]
    /\ saved = conf
    /\ saved0 = conf
    /\ todo = Images
    /\ re = FALSE
    /\ nextTag = 2
    /\ sr = NoCall
    /\ outcome = [i \in Images |-> "none"]
    /\ mustRedeploy = FALSE
    /\ InitDeployState
    /\ InitLaterState({<<>>})
    /\ InitCallState

\* up.go:110-148 and 281: the process has ended, through log.Fatalf or
\* after buildImages returned, and devspace up is run again, once more
\* without an explicit --build: GetConfig loads what SaveConfig last
\* wrote, and the Dockerfiles are what they are by then.  Tags are told
\* apart within a run only.
RunAgain ==
    /\ pc \in {"lookup", "fatal"}
    /\ pc' = "buildImages"
    /\ zone' \in Zones
    /\ files' \in RunFiles
    /\ conf' = saved
    /\ saved0' = saved
    /\ todo' = Images
    /\ re' = FALSE
    /\ nextTag' = 2
    /\ sr' = NoCall
    /\ outcome' = [i \in Images |-> "none"]
    /\ mustRedeploy' = FALSE
    /\ UNCHANGED <<flags, clusterConfig, callVars, saved, runVars>>

NextRuns ==
    \/ \E img \in Images : BuildImagesStep(img)
    \/ BuildImagesReturn
    \/ RunAgain

SpecRuns == InitRuns /\ [][NextRuns]_vars

\* ------------------------------------------------------------ a whole run

\* The flags of a run.  An explicit --build=false never reaches
\* buildImages, the one reader of buildChanged, so buildChanged is followed
\* only together with build.
FlagSets ==
    {f \in [build : BOOLEAN, buildChanged : BOOLEAN, deploy : BOOLEAN,
            portforwarding : BOOLEAN, sync : BOOLEAN] : f.buildChanged => f.build}

\* The port-forwarding configurations a whole run is followed through.
RunPortForwardings ==
    {<<>>, <<PodMapping, ServiceMapping>>, <<BareMapping, PodMapping>>}

\* Run is entered: any flags, one zone, records without a timestamp or with
\* the one of an earlier build, Dockerfiles missing, unchanged or changed.
Init ==
    /\ pc = "newClient"
    /\ flags \in FlagSets
    /\ clusterConfig \in BOOLEAN
    /\ InitBuildState({NilString, Format([inst |-> 1, off |-> 0])},
                      {MissingFile, [exists |-> TRUE, inst |-> 1]}, {0})
    /\ InitDeployState
    /\ InitLaterState(RunPortForwardings)
    /\ InitCallState

Next ==
    \/ NewClient
    \/ EnsureNamespace
    \/ InitHelmAndRegistries
    \/ \E img \in Images : BuildImagesStep(img)
    \/ BuildImagesReturn
    \/ LookupAndDecide
    \/ InstallChart
    \/ PollListFails
    \/ \E list \in RunPodLists : Poll(list)
    \/ WaitForPodReady
    \/ StartPortForwardingStep
    \/ PortForwardingDone
    \/ StartSync
    \/ EnterTerminal

Spec == Init /\ [][Next]_vars

\* ------------------------------------------- release-pod resolution alone

\* deployChart has installed the chart (the deploy flag was given, nothing
\* was built, a release pod was running) and has listed the pods of the
\* release MaxPolls - 1 times, finding none.
InitResolve ==
    /\ pc = "resolve"
    /\ flags = [build |-> FALSE, buildChanged |-> FALSE, deploy |-> TRUE,
                portforwarding |-> FALSE, sync |-> FALSE]
    /\ clusterConfig = TRUE
    /\ InitBuildState({NilString}, {[exists |-> TRUE, inst |-> 1]}, {0})
    /\ lookup = [err |-> FALSE, pod |-> RunningPod]
    /\ deployCalls = 1
    /\ releaseRevision \in 1..MaxRev
    /\ polls = MaxPolls - 1
    /\ InitLaterState({<<>>})
    /\ InitCallState

NextResolve ==
    \/ PollListFails
    \/ \E list \in PodLists : Poll(list)
    \/ WaitForPodReady

SpecResolve == InitResolve /\ [][NextResolve]_vars

\* The lists of a release whose pods stay at revision 1.
StaleLists == {<<>>, <<[name |-> 1, ann |-> Revision(1)]>>,
               <<[name |-> 1, ann |-> Revision(1)], [name |-> 2, ann |-> Revision(1)]>>}

\* Release-pod resolution left running for as long as it takes: the loop
\* takes its next turn whenever it can (weak fairness: the process is not
\* suspended), against a release that is slow or stale.
NextResolveLive ==
    \/ NextResolve
    \/ \E list \in StaleLists : PollAgain(list)

SpecResolveLive == InitResolve /\ [][NextResolveLive]_vars /\ WF_vars(NextResolveLive)

\* ------------------------------------------------- waitForPodReady alone

\* maxWaitTime ranges over 1..MaxWaitTime seconds.
MaxWaitTime == 7

\* checkInterval ranges over 1..MaxCheckInterval seconds.
MaxCheckInterval == 3

\* The calls of waitForPodReady: positive durations in seconds, against a
\* pod that is never ready, or is ready or gone at some poll.
WaitArgs ==
    [maxWaitTime : 1..MaxWaitTime, checkInterval : 1..MaxCheckInterval,
     obs : {[at |-> 0, what |-> "notready"]}
              \cup [at : 1..(MaxWaitTime + 1), what : {"ready", "error"}]]

InitOutsideRun ==
    /\ flags = [build |-> FALSE, buildChanged |-> FALSE, deploy |-> FALSE,
                portforwarding |-> FALSE, sync |-> FALSE]
    /\ InitBuildState({NilString}, {[exists |-> TRUE, inst |-> 1]}, {0})
    /\ InitDeployState
    /\ InitLaterState({<<>>})

InitWait ==
    /\ pc = "waitForPodReady"
    /\ clusterConfig = TRUE
    /\ InitOutsideRun
    /\ waitArgs \in WaitArgs
    /\ InitNoForward
    /\ InitNoExec({"none"}, {NothingToWrite})
    /\ InitNoNamespace
    /\ InitNoPods

\* up.go:677-694, one call from its arguments to its return.
WaitForPodReadyCall ==
    /\ pc = "waitForPodReady"
    /\ waitArgs # NoWaitArgs
    /\ ready' = waitForPodReady(waitArgs.maxWaitTime, waitArgs.checkInterval,
                                waitArgs.obs)
    /\ pc' = "returned"
    /\ UNCHANGED <<flags, clusterConfig, callVars, buildVars, mustRedeploy, lookup,
                   deployCalls, releaseRevision, resolveVars, cmdPod, podAssigns, pfVars,
                   syncState, terminal>>

NextWait == WaitForPodReadyCall

SpecWait == InitWait /\ [][NextWait]_vars

\* ---------------- startPortForwarding step by step, and then the terminal

\* The configuration holds at most MaxMappings port mappings.
MaxMappings == 2

\* The port-forwarding sections of a configuration.
ForwardConfigs ==
    UNION {[1..n -> {PodMapping, ServiceMapping, BareMapping}] : n \in 0..MaxMappings}

\* A ForwardPorts goroutine as `go` leaves it (up.go:638): both channels
\* fresh, nothing reported for it yet.
NewTask ==
    [st |-> "started", err |-> "none", readyChan |-> "open", stopChan |-> "open",
     readyAt |-> "never", reports |-> <<>>]

\* The case a select blocked on readyChan and time.After takes: the one
\* whose channel becomes ready first wakes it, and a later event changes
\* nothing.
SelectCaseLatest(chosen, event) == event

SelectCase(chosen, event) == IF chosen = "none" THEN event ELSE chosen

\* Run is about to start port forwarding: the release pod is cmd.pod.
InitForward ==
    /\ pc = "portForwarding"
    /\ clusterConfig = TRUE
    /\ flags = [build |-> FALSE, buildChanged |-> FALSE, deploy |-> FALSE,
                portforwarding |-> TRUE, sync |-> FALSE]
    /\ InitBuildState({NilString}, {[exists |-> TRUE, inst |-> 1]}, {0})
    /\ lookup = [err |-> FALSE, pod |-> RunningPod]
    /\ deployCalls = 0
    /\ releaseRevision = 0
    /\ polls = 0
    /\ podList = <<>>
    /\ selectedPod = NoPod
    /\ highestRevision = 0
    /\ cmdPod = RunningPod
    /\ podAssigns = 1
    /\ ready = NotWaited
    /\ pfConf \in ForwardConfigs
    /\ pfIdx = 0
    /\ pfLog = <<>>
    /\ tunnels = 0
    /\ syncState = "none"
    /\ terminal = "none"
    /\ waitArgs = NoWaitArgs
    /\ InitNoForward
    /\ InitNoExec({"none"}, {NothingToWrite})
    /\ InitNoNamespace
    /\ InitNoPods

\* up.go:611-641, one mapping up to the select: reported if its resource
\* type is not pod, passed over without selector, and otherwise the pod is
\* looked up; with a pod the goroutine is started on two fresh channels and
\* the select entered, which arms its five-second timer.
ForwardingBegin ==
    /\ pc = "portForwarding"
    /\ flags.portforwarding
    /\ pfIdx < Len(pfConf)
    /\ LET m == pfConf[pfIdx + 1]
       IN  IF m.kind # "pod"
           THEN /\ pfLog' = Append(pfLog, "unsupported")
                /\ pfIdx' = pfIdx + 1
                /\ UNCHANGED <<pc, tunnels, fwVars>>
           ELSE IF ~m.selector
           THEN /\ pfIdx' = pfIdx + 1
                /\ UNCHANGED <<pc, pfLog, tunnels, fwVars>>
           ELSE \E o \in {"listError", "noPod", "pod"} :
                CASE o = "listError" ->
                        /\ pfLog' = Append(pfLog, "listError")
                        /\ pfIdx' = pfIdx + 1
                        /\ UNCHANGED <<pc, tunnels, fwVars>>
                  [] o = "noPod" ->
                        /\ pfIdx' = pfIdx + 1
                        /\ UNCHANGED <<pc, pfLog, tunnels, fwVars>>
                  [] o = "pod" ->
                        /\ tasks' = Append(tasks, NewTask)
                        /\ tunnels' = tunnels + 1
                        /\ timer' = "armed"
                        /\ woken' = "none"
                        /\ pc' = "select"
                        /\ UNCHANGED <<pfIdx, pfLog>>
    /\ UNCHANGED <<flags, clusterConfig, buildVars, mustRedeploy, lookup, deployCalls,
                   releaseRevision, resolveVars, cmdPod, podAssigns, ready, pfConf,
                   syncState, terminal, callsButFw>>

\* The process has not exited: its goroutines can still run.
Alive == pc \notin {"done", "fatal", "panic"}

\* Whether the bootstrap is blocked in the select on the channel of task i.
Selecting(i) == pc = "select" /\ i = Len(tasks)

\* client.go:226-230: the goroutine loads the configuration first and
\* returns its error, having touched neither channel.
ForwardPortsConfig(i) ==
    /\ Alive
    /\ tasks[i].st = "started"
    /\ LET err == GetClientConfig(clusterConfig)
       IN  tasks' = [tasks EXCEPT ![i] = IF err = "nil"
                                         THEN [@ EXCEPT !.st = "dialing"]
                                         ELSE [@ EXCEPT !.st = "returned", !.err = err]]
    /\ UNCHANGED <<pc, flags, clusterConfig, buildVars, mustRedeploy, runVars, callsButFw,
                   timer, woken>>

\* client.go:238-252: the round tripper, the forwarder or the dial fails
\* and ForwardPorts returns the error; the ready channel stays open.
ForwardPortsFails(i) ==
    /\ Alive
    /\ tasks[i].st = "dialing"
    /\ tasks' = [tasks EXCEPT ![i] = [@ EXCEPT !.st = "returned", !.err = "transport"]]
    /\ UNCHANGED <<pc, flags, clusterConfig, buildVars, mustRedeploy, runVars, callsButFw,
                   timer, woken>>

\* client.go:252: fw.ForwardPorts is listening and closes readyChan, which
\* wakes a select still blocked on it.
ForwardPortsReady(i) ==
    /\ Alive
    /\ tasks[i].st = "dialing"
    /\ tasks' = [tasks EXCEPT ![i] =
                    [@ EXCEPT !.st = "serving", !.readyChan = "closed",
                              !.readyAt = IF Selecting(i) /\ timer = "armed"
                                          THEN "beforeTimeout" ELSE "afterTimeout"]]
    /\ woken' = IF Selecting(i) THEN SelectCase(woken, "ready") ELSE woken
    /\ UNCHANGED <<pc, flags, clusterConfig, buildVars, mustRedeploy, runVars, callsButFw,
                   timer>>

\* client.go:252: the connection is lost and fw.ForwardPorts returns; the
\* stop channel is still open.
ForwardPortsEnds(i) ==
    /\ Alive
    /\ tasks[i].st = "serving"
    /\ tasks' = [tasks EXCEPT ![i] = [@ EXCEPT !.st = "returned", !.err = "lost"]]
    /\ UNCHANGED <<pc, flags, clusterConfig, buildVars, mustRedeploy, runVars, callsButFw,
                   timer, woken>>

\* up.go:644: five seconds after the select was entered its timer fires.
TimerFires ==
    /\ Alive
    /\ timer = "armed"
    /\ timer' = "fired"
    /\ woken' = IF pc = "select" THEN SelectCase(woken, "timeout") ELSE woken
    /\ UNCHANGED <<pc, flags, clusterConfig, buildVars, mustRedeploy, runVars, callsButFw,
                   tasks>>

\* up.go:641-646: the select returns with the case that woke it, which is
\* reported, and the loop goes on to the next mapping; the goroutine and its
\* channels are left as they are.
SelectReturns ==
    /\ pc = "select"
    /\ woken # "none"
    /\ LET said == IF woken = "ready" THEN "started" ELSE "timeout"
       IN  /\ pfLog' = Append(pfLog, said)
           /\ tasks' = [tasks EXCEPT ![Len(tasks)].reports = Append(@, said)]
    /\ pfIdx' = pfIdx + 1
    /\ woken' = "none"
    /\ timer' = "off"
    /\ pc' = "portForwarding"
    /\ UNCHANGED <<flags, clusterConfig, buildVars, mustRedeploy, lookup, deployCalls,
                   releaseRevision, resolveVars, cmdPod, podAssigns, ready, pfConf,
                   tunnels, syncState, terminal, callsButFw>>

NextForward ==
    \/ ForwardingBegin
    \/ \E i \in 1..Len(tasks) : ForwardPortsConfig(i)
    \/ \E i \in 1..Len(tasks) : ForwardPortsFails(i)
    \/ \E i \in 1..Len(tasks) : ForwardPortsReady(i)
    \/ \E i \in 1..Len(tasks) : ForwardPortsEnds(i)
    \/ TimerFires
    \/ SelectReturns
    \/ PortForwardingDone
    \/ EnterTerminal

SpecForward == InitForward /\ [][NextForward]_vars

\* ------------------------------------------------- Exec and ExecBuffered

\* The remote command writes at most MaxBytes bytes to each stream.
MaxBytes == 2

\* A pipe holds at most PipeCap bytes that have not been read.
PipeCap == 1

\* What a remote command writes: up to MaxBytes bytes on each stream.
StdoutBytes == {1, 2}

StderrBytes == {3}

SeqsOf(S, n) == UNION {[1..k -> S] : k \in 0..n}

Todos == [stdout : SeqsOf(StdoutBytes, MaxBytes), stderr : SeqsOf(StderrBytes, MaxBytes)]

\* How exec.Stream ends: cleanly, with the exit code of the command, or
\* with a failure of the transport.
StreamResults == {"nil", "exit", "transport"}

\* sync.WaitGroup.Wait returning as soon as one drain is done.
BarrierOpenAfterOne(pending) == pending <= 1

\* client.go:379: sync.WaitGroup.Wait returns when the counter is zero.
BarrierOpen(pending) == pending = 0

\* The goroutine trying to deliver the stream's error before it closes
\* the write ends.
WorkerNextSendsFirst(step) ==
    CASE step = "stream" -> "send"
      [] step = "send" -> "closeStdin"
      [] step = "closeStdin" -> "closeStdout"
      [] step = "closeStdout" -> "closeStderr"
      [] step = "closeStderr" -> "done"

\* client.go:314-326: the statements of the goroutine in their order:
\* exec.Stream, the three Close calls, the send on errorChannel.
WorkerNext(step) ==
    CASE step = "stream" -> "closeStdin"
      [] step = "closeStdin" -> "closeStdout"
      [] step = "closeStdout" -> "closeStderr"
      [] step = "closeStderr" -> "send"
      [] step = "send" -> "done"

\* A program other than a run of devspace up calls Exec, with or without
\* a terminal, or ExecBuffered; the cluster section of the configuration
\* may be missing.
InitExec ==
    /\ pc = "newClient"
    /\ clusterConfig \in BOOLEAN
    /\ InitOutsideRun
    /\ waitArgs = NoWaitArgs
    /\ InitNoForward
    /\ InitNoExec({"tty", "exec", "buffered"}, Todos)
    /\ InitNoNamespace
    /\ InitNoPods

\* client.go:256-331 and 360-374: Exec up to its return, and for
\* ExecBuffered the start of the two drains.  The configuration error and
\* the executor error are returned before anything is made; with a terminal
\* the call lasts as long as the stream and returns its error; without one
\* the pipes are made, the goroutine started and the ends returned.
ExecBegin ==
    /\ session.pc = "call"
    /\ session.mode # "none"
    /\ IF GetClientConfig(clusterConfig) # "nil"
       THEN /\ session' = [session EXCEPT !.pc = "returned",
                                          !.ret.err = GetClientConfig(clusterConfig)]
            /\ UNCHANGED <<stream, pipes, worker, drains>>
       ELSE \/ /\ session' = [session EXCEPT !.pc = "returned", !.ret.err = "executor"]
               /\ UNCHANGED <<stream, pipes, worker, drains>>
            \/ /\ session.mode = "tty"
               /\ \E r \in StreamResults :
                     /\ session' = [session EXCEPT !.pc = "returned", !.ret.err = r]
                     /\ stream' = [stream EXCEPT !.st = "ended", !.result = r]
               /\ UNCHANGED <<pipes, worker, drains>>
            \/ /\ session.mode # "tty"
               /\ pipes' = [pipes EXCEPT !.made = TRUE]
               /\ worker' = "stream"
               /\ stream' = [stream EXCEPT !.st = "running"]
               /\ drains' = [drains EXCEPT !.on = TRUE, !.pending = 2]
               /\ session' = [session EXCEPT
                                !.pc = IF session.mode = "buffered" THEN "wait"
                                       ELSE "holding"]
    /\ UNCHANGED <<pc, flags, clusterConfig, buildVars, mustRedeploy, runVars,
                   callsButExec, delivered>>

\* client.go:315-320: exec.Stream copies a byte of the command's output
\* into a pipe that has room for it.
StreamWrite(s) ==
    /\ worker = "stream"
    /\ stream.todo[s] # <<>>
    /\ Len(pipes[s].buf) < PipeCap
    /\ pipes' = [pipes EXCEPT ![s].buf = Append(@, Head(stream.todo[s]))]
    /\ stream' = [stream EXCEPT !.todo[s] = Tail(@),
                                !.wrote[s] = Append(@, Head(stream.todo[s]))]
    /\ UNCHANGED <<pc, flags, clusterConfig, buildVars, mustRedeploy, runVars,
                   callsButExec, session, worker, drains, delivered>>

\* client.go:315-320: exec.Stream returns, with everything written or with
\* a transport failure that cuts the output short.
StreamEnds ==
    /\ worker = "stream"
    /\ \E r \in StreamResults :
          /\ r = "transport" \/ stream.todo = NothingToWrite
          /\ stream' = [stream EXCEPT !.st = "ended", !.result = r]
    /\ worker' = WorkerNext(worker)
    /\ UNCHANGED <<pc, flags, clusterConfig, buildVars, mustRedeploy, runVars,
                   callsButExec, session, pipes, drains, delivered>>

\* client.go:321-323: the goroutine closes the write ends, in this order.
WorkerCloses ==
    /\ worker \in {"closeStdin", "closeStdout", "closeStderr"}
    /\ pipes' = CASE worker = "closeStdin" -> [pipes EXCEPT !.stdin.closed = TRUE]
                  [] worker = "closeStdout" -> [pipes EXCEPT !.stdout.closed = TRUE]
                  [] worker = "closeStderr" -> [pipes EXCEPT !.stderr.closed = TRUE]
    /\ worker' = WorkerNext(worker)
    /\ UNCHANGED <<pc, flags, clusterConfig, buildVars, mustRedeploy, runVars,
                   callsButExec, session, stream, drains, delivered>>

\* client.go:325: the send of the stream's error.  A caller that passed a
\* channel receives from it; a send on the nil channel never proceeds.
WorkerSends ==
    /\ worker = "send"
    /\ session.errorChannel # "nil"
    /\ delivered' = Append(delivered, stream.result)
    /\ worker' = WorkerNext(worker)
    /\ UNCHANGED <<pc, flags, clusterConfig, buildVars, mustRedeploy, runVars,
                   callsButExec, session, stream, pipes, drains>>

\* client.go:370-377: io.Copy moves a byte from a pipe to its buffer.
DrainReads(s) ==
    /\ drains.on
    /\ ~drains[s].done
    /\ pipes[s].buf # <<>>
    /\ drains' = [drains EXCEPT ![s].buf = Append(@, Head(pipes[s].buf))]
    /\ pipes' = [pipes EXCEPT ![s].buf = Tail(@)]
    /\ UNCHANGED <<pc, flags, clusterConfig, buildVars, mustRedeploy, runVars,
                   callsButExec, session, stream, worker, delivered>>

\* client.go:370-377: io.Copy reads end-of-file from an empty pipe whose
\* write end is closed, and the drain signals streamDone.Done.
DrainEnds(s) ==
    /\ drains.on
    /\ ~drains[s].done
    /\ pipes[s].buf = <<>>
    /\ pipes[s].closed
    /\ drains' = [drains EXCEPT ![s].done = TRUE, !.pending = @ - 1]
    /\ UNCHANGED <<pc, flags, clusterConfig, buildVars, mustRedeploy, runVars,
                   callsButExec, session, stream, pipes, worker, delivered>>

\* client.go:379-381: streamDone.Wait returns and ExecBuffered returns the
\* bytes of both buffers.
ExecBufferedReturns ==
    /\ session.mode = "buffered"
    /\ session.pc = "wait"
    /\ BarrierOpen(drains.pending)
    /\ session' = [session EXCEPT !.pc = "returned",
                                  !.ret = [err |-> "nil", stdout |-> drains.stdout.buf,
                                           stderr |-> drains.stderr.buf]]
    /\ UNCHANGED <<pc, flags, clusterConfig, buildVars, mustRedeploy, runVars,
                   callsButExec, stream, pipes, worker, drains, delivered>>

NextExec ==
    \/ ExecBegin
    \/ \E s \in {"stdout", "stderr"} : StreamWrite(s)
    \/ StreamEnds
    \/ WorkerCloses
    \/ WorkerSends
    \/ \E s \in {"stdout", "stderr"} : DrainReads(s)
    \/ \E s \in {"stdout", "stderr"} : DrainEnds(s)
    \/ ExecBufferedReturns

SpecExec == InitExec /\ [][NextExec]_vars

\* The goroutines run whenever they can: none is suspended for ever.
FairExec ==
    /\ WF_vars(ExecBegin)
    /\ WF_vars(\E s \in {"stdout", "stderr"} : StreamWrite(s))
    /\ WF_vars(StreamEnds)
    /\ WF_vars(WorkerCloses)
    /\ WF_vars(WorkerSends)
    /\ WF_vars(\E s \in {"stdout", "stderr"} : DrainReads(s))
    /\ WF_vars(\E s \in {"stdout", "stderr"} : DrainEnds(s))
    /\ WF_vars(ExecBufferedReturns)

SpecExecFair == SpecExec /\ FairExec

\* ------------------------- the client package, with and without a cluster

\* What a caller of Exec or ExecBuffered has the command write.
ClientTodos == {NothingToWrite, [stdout |-> <<1>>, stderr |-> <<3>>]}

\* Either devspace up is about to create its client, or another command
\* calls Exec or ExecBuffered and ForwardPorts (on fresh channels) itself;
\* the configuration may lack its cluster section.
InitClient ==
    /\ clusterConfig \in BOOLEAN
    /\ InitOutsideRun
    /\ waitArgs = NoWaitArgs
    /\ timer = "off"
    /\ woken = "none"
    /\ InitNoNamespace
    /\ InitNoPods
    /\ \/ /\ pc = "newClient"
          /\ tasks = <<>>
          /\ InitNoExec({"none"}, {NothingToWrite})
       \/ /\ pc = "library"
          /\ tasks = <<NewTask>>
          /\ InitNoExec({"tty", "exec", "buffered"}, ClientTodos)

NextClient ==
    \/ NewClient
    \/ EnsureNamespace
    \/ NextExec
    \/ \E i \in 1..Len(tasks) : ForwardPortsConfig(i)
    \/ \E i \in 1..Len(tasks) : ForwardPortsFails(i)
    \/ \E i \in 1..Len(tasks) : ForwardPortsReady(i)
    \/ \E i \in 1..Len(tasks) : ForwardPortsEnds(i)

SpecClient == InitClient /\ [][NextClient]_vars

\* ----------------------------------------- ensureNamespace, step by step

Namespaces == {"default", "dev", "staging"}

\* Run is about to call ensureNamespace; other clients of the cluster
\* create and delete namespaces as they please.
InitNamespace ==
    /\ pc = "ensureNamespace"
    /\ clusterConfig = TRUE
    /\ InitOutsideRun
    /\ waitArgs = NoWaitArgs
    /\ InitNoForward
    /\ InitNoExec({"none"}, {NothingToWrite})
    /\ cluster \in SUBSET Namespaces
    /\ releaseNamespace \in Namespaces
    /\ ns = NoAnswers
    /\ InitNoPods

\* up.go:183-191: the error of Create, whatever it is.
CreateError(answer) == IF answer = "created" THEN "nil" ELSE answer

\* up.go:134-137: an error of ensureNamespace ends the run.
AfterEnsureNamespace(err) == IF err = "nil" THEN "initHelm" ELSE "fatal"

\* up.go:180-181 and 194: Namespaces().Get; found, ensureNamespace returns
\* nil, and on any error Create comes next.
NamespaceGet ==
    /\ pc = "ensureNamespace"
    /\ ns.pc = "get"
    /\ \E reachable \in BOOLEAN :
          LET answer == IF ~reachable THEN "unavailable"
                        ELSE IF releaseNamespace \in cluster THEN "found"
                        ELSE "notFound"
          IN  IF answer = "found"
              THEN /\ ns' = [ns EXCEPT !.pc = "returned", !.get = answer, !.ret = "nil"]
                   /\ pc' = AfterEnsureNamespace("nil")
              ELSE /\ ns' = [ns EXCEPT !.pc = "create", !.get = answer]
                   /\ pc' = pc
    /\ UNCHANGED <<flags, clusterConfig, buildVars, mustRedeploy, runVars, callsButNs,
                   cluster, releaseNamespace>>

\* up.go:183-194: Namespaces().Create, and the return of ensureNamespace.
NamespaceCreate ==
    /\ pc = "ensureNamespace"
    /\ ns.pc = "create"
    /\ \E reachable \in BOOLEAN :
          LET answer == IF ~reachable THEN "unavailable"
                        ELSE IF releaseNamespace \in cluster THEN "alreadyExists"
                        ELSE "created"
          IN  /\ ns' = [ns EXCEPT !.pc = "returned", !.create = answer,
                                  !.ret = CreateError(answer)]
              /\ cluster' = IF answer = "created" THEN cluster \cup {releaseNamespace}
                            ELSE cluster
              /\ pc' = AfterEnsureNamespace(CreateError(answer))
    /\ UNCHANGED <<flags, clusterConfig, buildVars, mustRedeploy, runVars, callsButNs,
                   releaseNamespace>>

\* Another client of the cluster creates or deletes a namespace while
\* ensureNamespace is under way.
OtherClient(n) ==
    /\ pc = "ensureNamespace"
    /\ cluster' = IF n \in cluster THEN cluster \ {n} ELSE cluster \cup {n}
    /\ UNCHANGED <<pc, flags, clusterConfig, buildVars, mustRedeploy, runVars, callsButNs,
                   releaseNamespace, ns>>

NextNamespace ==
    \/ NamespaceGet
    \/ NamespaceCreate
    \/ \E n \in Namespaces : OtherClient(n)

SpecNamespace == InitNamespace /\ [][NextNamespace]_vars

\* ------------------------------------ GetPodStatus and GetFirstRunningPod

\* A pod has at most MaxInits init containers and MaxContainers containers.
MaxInits == 1

MaxContainers == 2

\* A status string: the format it was made with and what was put into it.
Plain(text) == [fmt |-> "%s", s |-> text, a |-> 0, b |-> 0]

InitPrefixed(text) == [fmt |-> "Init:%s", s |-> text, a |-> 0, b |-> 0]

Sprintf1(format, n) == [fmt |-> format, s |-> "", a |-> n, b |-> 0]

Sprintf2(format, n, m) == [fmt |-> format, s |-> "", a |-> n, b |-> m]

\* A container status: which of State.Waiting, State.Running and
\* State.Terminated is set, with its Reason, Signal and ExitCode, and Ready.
Terminated(reason, signal, exitCode) ==
    [kind |-> "terminated", reason |-> reason, signal |-> signal,
     exitCode |-> exitCode, ready |-> FALSE]

Waiting(reason) ==
    [kind |-> "waiting", reason |-> reason, signal |-> 0, exitCode |-> 0, ready |-> FALSE]

Running(isReady) ==
    [kind |-> "running", reason |-> "", signal |-> 0, exitCode |-> 0, ready |-> isReady]

ContainerStatuses ==
    {Terminated("Completed", 0, 0), Terminated("Error", 0, 1), Terminated("", 9, 137),
     Terminated("", 0, 2), Waiting("CrashLoopBackOff"), Waiting("PodInitializing"),
     Running(TRUE), Running(FALSE)}

\* node.NodeUnreachablePodReason
NodeUnreachablePodReason == "NodeLost"

\* The pods GetPodStatus is given: any init containers before a few sets
\* of containers, and any containers after init containers that are done.
StatusPods ==
    [phase : {"Pending", "Running"},
     reason : {"", NodeUnreachablePodReason, "Evicted"},
     deleted : BOOLEAN,
     inits : SeqsOf(ContainerStatuses, MaxInits),
     containers : {<<>>, <<Running(TRUE)>>,
                   <<Terminated("Completed", 0, 0), Running(TRUE)>>}]
        \cup
    [phase : {"Pending", "Running"},
     reason : {"", NodeUnreachablePodReason, "Evicted"},
     deleted : BOOLEAN,
     inits : {<<>>, <<Terminated("Completed", 0, 0)>>},
     containers : SeqsOf(ContainerStatuses, MaxContainers)]

RECURSIVE InitContainerScan(_, _, _)
\* client.go:93-119, from init container i on (counted from 1): the first
\* one that has not terminated with exit code 0 gives the reason and ends
\* the loop.
InitContainerScan(inits, i, reason) ==
    IF i > Len(inits)
    THEN [reason |-> reason, initializing |-> FALSE]
    ELSE LET c == inits[i]
         IN  IF c.kind = "terminated" /\ c.exitCode = 0
             THEN InitContainerScan(inits, i + 1, reason)
             ELSE [initializing |-> TRUE,
                   reason |->
                     IF c.kind = "terminated"
                     THEN IF c.reason = ""
                          THEN IF c.signal # 0
                               THEN Sprintf1("Init:Signal:%d", c.signal)
                               ELSE Sprintf1("Init:ExitCode:%d", c.exitCode)
                          ELSE InitPrefixed(c.reason)
                     ELSE IF c.kind = "waiting" /\ c.reason # ""
                             /\ c.reason # "PodInitializing"
                     THEN InitPrefixed(c.reason)
                     ELSE Sprintf2("Init:%d/%d", i - 1, Len(inits))]

RECURSIVE ContainerScanUpward(_, _, _, _)
\* The containers scanned from the first to the last, i of them to go.
ContainerScanUpward(containers, i, reason, hasRunning) ==
    IF i = 0
    THEN [reason |-> reason, hasRunning |-> hasRunning]
    ELSE LET c == containers[Len(containers) - i + 1]
         IN  IF (c.kind = "waiting" \/ c.kind = "terminated") /\ c.reason # ""
             THEN ContainerScanUpward(containers, i - 1, Plain(c.reason), hasRunning)
             ELSE IF c.kind = "terminated"
             THEN ContainerScanUpward(containers, i - 1,
                                      IF c.signal # 0 THEN Sprintf1("Signal:%d", c.signal)
                                      ELSE Sprintf1("ExitCode:%d", c.exitCode),
                                      hasRunning)
             ELSE ContainerScanUpward(containers, i - 1, reason,
                                      hasRunning \/ (c.ready /\ c.kind = "running"))

RECURSIVE ContainerScan(_, _, _, _)
\* client.go:123-139, from container i down to the first.
ContainerScan(containers, i, reason, hasRunning) ==
    IF i = 0
    THEN [reason |-> reason, hasRunning |-> hasRunning]
    ELSE LET c == containers[i]
         IN  IF c.kind = "waiting" /\ c.reason # ""
             THEN ContainerScan(containers, i - 1, Plain(c.reason), hasRunning)
             ELSE IF c.kind = "terminated" /\ c.reason # ""
             THEN ContainerScan(containers, i - 1, Plain(c.reason), hasRunning)
             ELSE IF c.kind = "terminated"
             THEN ContainerScan(containers, i - 1,
                                IF c.signal # 0 THEN Sprintf1("Signal:%d", c.signal)
                                ELSE Sprintf1("ExitCode:%d", c.exitCode),
                                hasRunning)
             ELSE IF c.ready /\ c.kind = "running"
             THEN ContainerScan(containers, i - 1, reason, TRUE)
             ELSE ContainerScan(containers, i - 1, reason, hasRunning)

\* The reason computed from the containers returned as it is.
DeletionIgnored(pod, reason) == reason

\* client.go:147-151: a deletion timestamp decides the status.
DeletionOverride(pod, reason) ==
    IF pod.deleted /\ pod.reason = NodeUnreachablePodReason THEN Plain("Unknown")
    ELSE IF pod.deleted THEN Plain("Terminating")
    ELSE reason

\* client.go:84-154
GetPodStatus(pod) ==
    LET phase == IF pod.reason # "" THEN Plain(pod.reason) ELSE Plain(pod.phase)
        init == InitContainerScan(pod.inits, 1, phase)
        scan == ContainerScan(pod.containers, Len(pod.containers), init.reason, FALSE)
        reason == IF init.initializing THEN init.reason
                  ELSE IF scan.reason = Plain("Completed") /\ scan.hasRunning
                  THEN Plain("Running")
                  ELSE scan.reason
    IN  DeletionOverride(pod, reason)

\* A pod taken for running by its phase alone.
RunningByPhase(pod) == pod.phase = "Running"

\* client.go:74: the test of GetFirstRunningPod.
CountsAsRunning(pod) == GetPodStatus(pod) = Plain("Running")

RECURSIVE FirstRunningFrom(_, _, _)
\* client.go:73-79, from pod i on: the statuses derived so far, and the
\* index of the pod returned (0: nil).
FirstRunningFrom(items, i, statuses) ==
    IF i > Len(items)
    THEN [called |-> TRUE, err |-> FALSE, index |-> 0, statuses |-> statuses]
    ELSE IF CountsAsRunning(items[i])
    THEN [called |-> TRUE, err |-> FALSE, index |-> i,
          statuses |-> Append(statuses, GetPodStatus(items[i]))]
    ELSE FirstRunningFrom(items, i + 1, Append(statuses, GetPodStatus(items[i])))

\* client.go:64-80
GetFirstRunningPod(list) ==
    IF list.err
    THEN [called |-> TRUE, err |-> TRUE, index |-> 0, statuses |-> <<>>]
    ELSE FirstRunningFrom(list.items, 1, <<>>)

\* Pods of a release as a listing shows them together: running, starting,
\* completed next to a container still running, and being deleted.
ListedPods ==
    {[phase |-> "Running", reason |-> "", deleted |-> FALSE, inits |-> <<>>,
      containers |-> <<Running(TRUE)>>],
     [phase |-> "Pending", reason |-> "", deleted |-> FALSE, inits |-> <<>>,
      containers |-> <<Waiting("CrashLoopBackOff")>>],
     [phase |-> "Running", reason |-> "", deleted |-> FALSE, inits |-> <<>>,
      containers |-> <<Terminated("Completed", 0, 0), Running(TRUE)>>],
     [phase |-> "Running", reason |-> "", deleted |-> TRUE, inits |-> <<>>,
      containers |-> <<Running(TRUE)>>],
     [phase |-> "Running", reason |-> NodeUnreachablePodReason, deleted |-> TRUE,
      inits |-> <<>>, containers |-> <<Running(TRUE)>>]}

\* What Pods(namespace).List answers: an error, one pod of any kind, or
\* up to MaxPods of the pods of a release.
Listings ==
    {[err |-> TRUE, items |-> <<>>]}
        \cup {[err |-> FALSE, items |-> <<p>>] : p \in StatusPods}
        \cup {[err |-> FALSE, items |-> l] : l \in SeqsOf(ListedPods, MaxPods)}

InitPods ==
    /\ pc = "library"
    /\ clusterConfig = TRUE
    /\ InitOutsideRun
    /\ waitArgs = NoWaitArgs
    /\ InitNoForward
    /\ InitNoExec({"none"}, {NothingToWrite})
    /\ InitNoNamespace
    /\ listing \in Listings
    /\ first = NotCalled

\* client.go:64-80, one call from the listing to the return.
GetFirstRunningPodCall ==
    /\ pc = "library"
    /\ ~first.called
    /\ first' = GetFirstRunningPod(listing)
    /\ UNCHANGED <<pc, flags, clusterConfig, buildVars, mustRedeploy, runVars,
                   callsButPods, listing>>

NextPods == GetFirstRunningPodCall

SpecPods == InitPods /\ [][NextPods]_vars

\* ----------------------------------------------------------------- claims

\* The timestamp string s denotes the instant i.
DenotesInstant(s, i) == s.kind = "ok" /\ s.wall - s.off = i

\* Two stored timestamps are the same: the same text, or texts that Parse
\* reads as the same instant.
SameTimestamp(s, t) ==
    \/ s = t
    \/ s # NilString /\ t # NilString /\ Equal(Parse(s), Parse(t))

\* C1: shouldRebuild, called for an image whose Dockerfile exists, returns
\* true whenever the record has no prior timestamp or the build flag was set
\* explicitly, whatever the stored timestamp, and afterwards the record's
\* timestamp is the file's modification time.
C1_RebuildForcedOrFirst ==
    (sr.called /\ sr.file.exists /\ (sr.prior = NilString \/ sr.flag))
        => /\ ~sr.fatal
           /\ sr.ret = TRUE
           /\ DenotesInstant(sr.after, sr.file.inst)
           /\ conf[sr.img].LatestTimestamp = sr.after

\* The build flag was explicit and the stored timestamp is the file's
\* modification time: still a rebuild.
C1_Witness ==
    /\ sr.called /\ sr.file.exists /\ sr.flag
    /\ DenotesInstant(sr.prior, sr.file.inst)
    /\ sr.ret = TRUE

\* C2: without the explicit flag, for an existing Dockerfile and a record
\* with a stored timestamp, shouldRebuild returns false exactly when the
\* stored timestamp is the file's modification time, and true for every
\* other modification time, older or newer.
C2_RebuildIffChanged ==
    (sr.called /\ sr.file.exists /\ ~sr.flag /\ sr.prior # NilString)
        => /\ ~sr.fatal
           /\ (sr.ret = FALSE) <=> DenotesInstant(sr.prior, sr.file.inst)

\* The file is one tick older than the stored timestamp: a rebuild.
C2_Witness ==
    /\ sr.called /\ sr.file.exists /\ ~sr.flag
    /\ DenotesInstant(sr.prior, sr.file.inst + 1)
    /\ sr.ret = TRUE

\* C3: with the Dockerfile missing, shouldRebuild ends the run with a fatal
\* error if the record has no prior timestamp, and otherwise returns false,
\* explicit flag or not; the image is then skipped: it is not built, and re
\* is true only if some other image went into a build.
C3_MissingDockerfile ==
    (sr.called /\ ~sr.file.exists)
        => IF sr.prior = NilString
           THEN sr.fatal /\ pc = "fatal" /\ outcome[sr.img] = "dockerfileMissing"
           ELSE /\ ~sr.fatal
                /\ sr.ret = FALSE
                /\ outcome[sr.img] = "skipped"
                /\ conf[sr.img].Tag = saved0[sr.img].Tag
                /\ re => \E j \in Images \ {sr.img} : outcome[j] \in BuildOutcomes

\* A missing Dockerfile, a prior timestamp and the explicit flag: skipped.
C3_Witness ==
    /\ sr.called /\ ~sr.file.exists /\ sr.flag /\ sr.prior # NilString
    /\ outcome[sr.img] = "skipped"
    /\ ~re

\* C4, as claimed: after every call of shouldRebuild that returns, the
\* record's timestamp is the Dockerfile's current modification time, file
\* present or missing.
C4_Original ==
    (sr.called /\ ~sr.fatal)
        => sr.file.exists /\ DenotesInstant(sr.after, sr.file.inst)

\* C4, amended: after every call of shouldRebuild that returns, the
\* record's timestamp is the Dockerfile's modification time if the file is
\* present, and the zero time if it is missing.
C4_TimestampOverwritten ==
    (sr.called /\ ~sr.fatal)
        => /\ conf[sr.img].LatestTimestamp = sr.after
           /\ IF sr.file.exists
              THEN DenotesInstant(sr.after, sr.file.inst)
              ELSE sr.after = Format(ZeroTime)

\* A missing Dockerfile and a record holding a real timestamp.
C4_Witness ==
    /\ sr.called /\ ~sr.fatal /\ ~sr.file.exists
    /\ sr.prior.kind = "ok" /\ sr.prior.wall - sr.prior.off > 0
    /\ sr.after = Format(ZeroTime)

\* C5, as claimed: the persisted record of an image changes only through a
\* successful build and push of that image; a built image's record is
\* persisted, with its new tag, before the next image is examined.
C5_PersistedOnlyOnOwnBuild ==
    \A i \in Images :
        IF outcome[i] = "ok"
        THEN saved[i] = conf[i] /\ saved[i].Tag # saved0[i].Tag
        ELSE /\ saved[i].Tag = saved0[i].Tag
             /\ SameTimestamp(saved[i].LatestTimestamp, saved0[i].LatestTimestamp)

\* Run has looked for a running release pod.
Decided == lookup.err \/ lookup.pod # NoPod

\* Some image was built and pushed in this run.
Rebuilt == \E i \in Images : outcome[i] = "ok"

\* C6: deployChart is invoked whenever an image was rebuilt or the deploy
\* flag is set, a running release pod notwithstanding; when neither holds a
\* running release pod is reused as cmd.pod without a deploy, and a deploy
\* happens only if the lookup of that pod failed.
C6_DeployDecision ==
    Decided =>
        /\ (Rebuilt \/ flags.deploy) => deployCalls = 1
        /\ (~Rebuilt /\ ~flags.deploy /\ ~lookup.err)
              => deployCalls = 0 /\ cmdPod = lookup.pod /\ podAssigns = 1
        /\ (~Rebuilt /\ ~flags.deploy /\ lookup.err) => deployCalls = 1

\* An image was rebuilt and a release pod is running: deployed all the same.
C6_Witness ==
    /\ Decided /\ Rebuilt /\ ~flags.deploy /\ ~lookup.err
    /\ deployCalls = 1
    /\ releaseRevision > 0

\* Every image has been through buildImages, and what was built is saved.
BuildsComplete ==
    flags.build =>
        /\ todo = {}
        /\ \A i \in Images :
              /\ outcome[i] \in {"skipped", "ok"}
              /\ outcome[i] = "ok" => saved[i] = conf[i]

\* Exec was reached by enterTerminal: the session was attached.
Attached == terminal \in {"streamError", "exitCode", "clean"}

C8_SessionPod ==
    /\ podAssigns <= 1
    /\ Attached =>
          /\ cmdPod # NoPod
          /\ podAssigns = 1
          /\ \/ deployCalls = 0 /\ ~lookup.err /\ cmdPod = lookup.pod
             \/ /\ deployCalls = 1
                /\ cmdPod = selectedPod
                /\ cmdPod.name \in 1..Len(podList) /\ podList[cmdPod.name] = cmdPod
                /\ ready.err = "nil"
    /\ ready.err \in {"timeout", "fetch"}
          => /\ pc = "fatal"
             /\ pfIdx = 0 /\ pfLog = <<>> /\ tunnels = 0
             /\ syncState = "none" /\ terminal = "none"

\* Attached to a pod that became ready on the last poll of the wait.
C8_Witness ==
    /\ Attached /\ deployCalls = 1
    /\ ready.err = "nil" /\ ready.polls = 24
    /\ cmdPod = selectedPod

\* C9: on a poll with a non-empty list the selected pod is the first pod in
\* list order whose revision is the highest of the list: a later pod wins
\* only with an annotation strictly greater than the highest so far, so a
\* later pod of equal revision never wins, no pod of lower revision is
\* selected while a higher one is listed, and a pod without annotation is
\* selected only as the first pod with no later revision above it.
C9_HighestRevisionFirst ==
    Len(podList) > 0 =>
        LET k == selectedPod.name
        IN  /\ k \in 1..Len(podList)
            /\ selectedPod = podList[k]
            /\ highestRevision = Atoi(selectedPod.ann)
            /\ \A j \in 1..Len(podList) :
                  (j = 1 \/ podList[j].ann.has)
                      => /\ Atoi(podList[j].ann) <= highestRevision
                         /\ j < k => Atoi(podList[j].ann) < highestRevision
            /\ ~selectedPod.ann.has => k = 1

\* Revisions 1, 3, 3: the first of the two pods of revision 3 is selected.
C9_Witness ==
    /\ Len(podList) = 3
    /\ podList[1].ann = Revision(1)
    /\ podList[2].ann = Revision(MaxRev) /\ podList[3].ann = Revision(MaxRev)
    /\ selectedPod.name = 2

\* C10: the selected pod is accepted on a poll if and only if it has no
\* revision annotation or its revision is the one the deploy returned; any
\* other selected pod, of lower or higher revision, is not accepted and
\* polling goes on, so cmd.pod set by a deploy is unannotated or of exactly
\* the deployed revision.
C10_AcceptsDeployedRevision ==
    (deployCalls = 1 /\ Len(podList) > 0) =>
        LET wanted == \/ ~selectedPod.ann.has
                      \/ selectedPod.ann.num /\ selectedPod.ann.val = releaseRevision
        IN  /\ wanted <=> cmdPod # NoPod
            /\ cmdPod # NoPod => cmdPod = selectedPod /\ pc # "resolve"
            /\ cmdPod = NoPod => pc \in {"resolve", "panic"}

\* A selected pod of a revision above the deployed one is not accepted.
C10_Witness ==
    /\ Len(podList) > 0
    /\ selectedPod.ann.num /\ selectedPod.ann.val > releaseRevision
    /\ cmdPod = NoPod /\ pc = "resolve"

\* C11: release-pod resolution always terminates: the phase is eventually
\* left, with a fatal error if no pod is ever accepted, instead of polling
\* forever.
C11_ResolutionTerminates == <>(pc # "resolve")

\* The polls a wait of maxWaitTime makes against a pod that is never ready.
PollsOf(maxWaitTime, checkInterval) ==
    (maxWaitTime + checkInterval - 1) \div checkInterval

\* A call of waitForPodReady on its own has returned.
WaitReturned == waitArgs # NoWaitArgs /\ pc = "returned"

\* C12 as stated: a pod that is never ready is polled exactly
\* floor(maxWaitTime / checkInterval) times before the timeout error, and a
\* pod first ready on poll k within that limit gives success at poll k
\* after k - 1 sleeps.
C12_Original ==
    WaitReturned =>
        LET limit == waitArgs.maxWaitTime \div waitArgs.checkInterval
            obs == waitArgs.obs
        IN  /\ obs.at = 0 => ready.err = "timeout" /\ ready.polls = limit
            /\ obs.what = "ready" /\ obs.at \in 1..limit =>
                  ready = [err |-> "nil", polls |-> obs.at, sleeps |-> obs.at - 1]

\* C12 amended: a pod that is never ready is polled exactly
\* ceil(maxWaitTime / checkInterval) times, one sleep after each poll,
\* before the timeout error; a pod first ready on poll k within that limit
\* gives success at poll k after k - 1 sleeps, with no further poll.
C12_PollsRoundedUp ==
    WaitReturned =>
        LET limit == PollsOf(waitArgs.maxWaitTime, waitArgs.checkInterval)
            obs == waitArgs.obs
        IN  /\ obs.at = 0 \/ obs.at > limit =>
                  ready = [err |-> "timeout", polls |-> limit, sleeps |-> limit]
            /\ obs.what = "ready" /\ obs.at \in 1..limit =>
                  ready = [err |-> "nil", polls |-> obs.at, sleeps |-> obs.at - 1]

\* A wait that is no multiple of its interval has timed out against a pod
\* that was never ready.
C12_Witness ==
    /\ WaitReturned
    /\ waitArgs.maxWaitTime % waitArgs.checkInterval # 0
    /\ waitArgs.obs.at = 0
    /\ ready.err = "timeout"

\* What the bootstrap owes the mapping of a tunnel: success if the ready
\* signal came while the select's timer was still running.
Owed(t) == IF t.readyAt = "beforeTimeout" THEN "started" ELSE "timeout"

\* C13: for each mapping with a resolved pod the bootstrap reports exactly
\* one outcome once its select has returned, success if the ready signal
\* came before the five-second timeout and the timeout error otherwise, and
\* never a second one for a ready signal that comes late; the bootstrap is
\* not left blocked once the timer has fired; and no tunnel's stop channel
\* is ever closed.
C13_OneOutcomePerTunnel ==
    /\ \A i \in 1..Len(tasks) :
          /\ tasks[i].reports = IF Selecting(i) THEN <<>> ELSE <<Owed(tasks[i])>>
          /\ tasks[i].stopChan = "open"
    /\ pc = "select" /\ timer = "fired" => woken # "none"

\* One tunnel was reported started; another was reported timed out, and
\* its ready signal has come since.
C13_Witness ==
    \E i, j \in 1..Len(tasks) :
        /\ tasks[i].reports = <<"started">>
        /\ tasks[j].reports = <<"timeout">>
        /\ tasks[j].readyChan = "closed"

PipesClosed == pipes.stdin.closed /\ pipes.stdout.closed /\ pipes.stderr.closed

\* C14: in buffered mode, through Exec or through ExecBuffered, once the
\* remote stream has ended the worker closes its three pipe ends and then
\* delivers the stream's error on the error channel, exactly once and with
\* the pipes already closed, and terminates.
C14_ErrorDeliveredOnce ==
    /\ [](/\ Len(delivered) <= 1
          /\ delivered # <<>> => PipesClosed /\ worker = "done")
    /\ [](worker = "closeStdin" =>
            <>(worker = "done" /\ PipesClosed /\ delivered = <<stream.result>>))

\* C15: ExecBuffered returns its buffers only after both drains have read
\* end-of-file and signalled completion, and each buffer then holds exactly
\* the bytes the remote command wrote to its stream, in order.
C15_BuffersComplete ==
    session.mode = "buffered" /\ session.pc = "returned" /\ session.ret.err = "nil" =>
        /\ drains.stdout.done /\ drains.stderr.done
        /\ drains.pending = 0
        /\ session.ret.stdout = stream.wrote.stdout
        /\ session.ret.stderr = stream.wrote.stderr

\* ExecBuffered has returned the output of a command that wrote MaxBytes
\* bytes to each stream.
C15_Witness ==
    /\ session.mode = "buffered"
    /\ session.pc = "returned"
    /\ Len(session.ret.stdout) = MaxBytes
    /\ Len(session.ret.stderr) = MaxBytes
    /\ stream.result = "nil"

\* C16: the interactive session lasts until the remote command has ended
\* (the run is over only once Exec has returned); the run finishes normally
\* when the session ends with the remote exit code as its error, and
\* fatally when the stream fails or cannot be set up.
C16_TerminalErrors ==
    /\ terminal = "exitCode" => pc = "done"
    /\ terminal \in {"executorError", "streamError"} => pc = "fatal"
    /\ pc = "done" => terminal \in {"exitCode", "clean"}

\* The remote shell has ended with an exit code, and the run normally.
C16_Witness == terminal = "exitCode" /\ pc = "done"

\* C17: ensureNamespace is idempotent under creation races: when Create
\* answers that the namespace already exists, ensureNamespace returns
\* success and the run goes on.
C17_AlreadyExistsIsSuccess ==
    ns.create = "alreadyExists" => ns.ret = "nil" /\ pc = "initHelm"

\* Nothing of a run past the creation of its client has happened.
NoClusterOperation ==
    /\ pc \in {"newClient", "fatal"}
    /\ todo = Images
    /\ lookup = [err |-> FALSE, pod |-> NoPod]
    /\ deployCalls = 0
    /\ polls = 0

\* C18: without a cluster section in the configuration the run ends at
\* the creation of its client, before any cluster operation; Exec and
\* ExecBuffered return the configuration error with no pipe made, no worker
\* or drain started, and ForwardPorts returns it with its ready channel
\* never closed.
C18_NoClusterConfig ==
    ~clusterConfig =>
        /\ pc # "library" => NoClusterOperation
        /\ session.pc = "returned" => session.ret.err = "config"
        /\ ~pipes.made /\ worker = "none" /\ ~drains.on /\ stream.st = "idle"
        /\ \A i \in 1..Len(tasks) :
              /\ tasks[i].st \in {"started", "returned"}
              /\ tasks[i].st = "returned" => tasks[i].err = "config"
              /\ tasks[i].readyChan = "open"

\* Without a cluster section, a call of Exec and one of ForwardPorts have
\* both returned.
C18_Witness ==
    /\ ~clusterConfig
    /\ session.pc = "returned"
    /\ Len(tasks) = 1
    /\ tasks[1].st = "returned"

\* C19: a pod with a deletion timestamp has the status "Unknown" if its
\* status reason is node-unreachable and "Terminating" otherwise, whatever
\* its phase and its containers; it is never "Running" and never the pod
\* GetFirstRunningPod returns.
C19_DeletionDecides ==
    first.called =>
        /\ \A i \in 1..Len(first.statuses) :
              listing.items[i].deleted =>
                  first.statuses[i] =
                      IF listing.items[i].reason = NodeUnreachablePodReason
                      THEN Plain("Unknown") ELSE Plain("Terminating")
        /\ first.index # 0 => ~listing.items[first.index].deleted

\* A pod being deleted, of phase Running and with a container ready and
\* running, was listed before the pod that was returned.
C19_Witness ==
    /\ first.called
    /\ first.index > 1
    /\ listing.items[1].deleted
    /\ listing.items[1].phase = "Running"
    /\ listing.items[1].containers = <<Running(TRUE)>>

\* C20: GetFirstRunningPod returns the first pod of the listing whose
\* status is exactly "Running"; no pod and no error if the listing is empty
\* or has no such pod; and the error, with no pod, if the listing failed.
C20_FirstRunning ==
    first.called =>
        LET running == {i \in 1..Len(listing.items) :
                           GetPodStatus(listing.items[i]) = Plain("Running")}
        IN  /\ first.err = listing.err
            /\ listing.err => first.index = 0
            /\ ~listing.err /\ running = {} => first.index = 0
            /\ ~listing.err /\ running # {} =>
                  /\ first.index \in running
                  /\ \A i \in running : first.index <= i

\* The pod returned is the second of two running pods, after one that is
\* not running.
C20_Witness ==
    /\ first.called
    /\ first.index = 2
    /\ Len(listing.items) = 3
    /\ GetPodStatus(listing.items[3]) = Plain("Running")

\* Every init container of the pod has terminated with exit code 0.
InitsDone(pod) ==
    \A k \in 1..Len(pod.inits) :
        pod.inits[k].kind = "terminated" /\ pod.inits[k].exitCode = 0

\* The containers that override the status: waiting with a reason, or
\* terminated.
Overriding(pod) ==
    {k \in 1..Len(pod.containers) :
        \/ pod.containers[k].kind = "waiting" /\ pod.containers[k].reason # ""
        \/ pod.containers[k].kind = "terminated"}

\* The status a container that overrides gives.
StatusOf(c) ==
    IF c.reason # "" THEN Plain(c.reason)
    ELSE IF c.signal # 0 THEN Sprintf1("Signal:%d", c.signal)
    ELSE Sprintf1("ExitCode:%d", c.exitCode)

\* The status of a pod whose init containers are done: that of its
\* lowest-indexed overriding container, or else its reason or phase; and
\* "Running" for "Completed" next to a container ready and running.
ScannedStatus(pod) ==
    LET over == Overriding(pod)
        base == IF over = {}
                THEN IF pod.reason # "" THEN Plain(pod.reason) ELSE Plain(pod.phase)
                ELSE StatusOf(pod.containers[CHOOSE k \in over : \A j \in over : k <= j])
        hasRunning == \E k \in 1..Len(pod.containers) :
                          pod.containers[k].kind = "running" /\ pod.containers[k].ready
    IN  IF base = Plain("Completed") /\ hasRunning THEN Plain("Running") ELSE base

\* C21: for a pod without deletion timestamp whose init containers are all
\* done, the lowest-indexed container that is waiting with a reason or
\* terminated decides the status, and "Completed" next to a container ready
\* and running becomes "Running"; with an init container not done the
\* status has the "Init:" marker, is the same whatever the containers, and
\* is never "Running".
C21_ContainerScan ==
    first.called =>
        \A i \in 1..Len(first.statuses) :
            LET pod == listing.items[i]
                status == first.statuses[i]
            IN  ~pod.deleted =>
                    IF InitsDone(pod)
                    THEN status = ScannedStatus(pod)
                    ELSE /\ status.fmt \in {"Init:%s", "Init:Signal:%d",
                                             "Init:ExitCode:%d", "Init:%d/%d"}
                         /\ status # Plain("Running")
                         /\ status = GetPodStatus([pod EXCEPT !.containers = <<>>])
                         /\ first.index # i

\* The status of a pod is that of its first container, which is waiting,
\* and not that of its second, which has terminated.
C21_Witness ==
    /\ first.called
    /\ Len(listing.items) = 1
    /\ ~listing.items[1].deleted
    /\ listing.items[1].reason = ""
    /\ listing.items[1].containers = <<Waiting("CrashLoopBackOff"), Terminated("Error", 0, 1)>>
    /\ first.statuses = <<Plain("CrashLoopBackOff")>>

\* C22: a failed fetch of the pod ends waitForPodReady at once, after one
\* sleep for each earlier poll and none for the failing one, and it ends
\* the run: the pod accepted stays the only one assigned to cmd.pod and
\* release-pod resolution does not go on.
C22_FetchErrorIsFatal ==
    ready.err = "fetch" =>
        /\ ready.polls >= 1
        /\ ready.sleeps = ready.polls - 1
        /\ pc = "fatal"
        /\ podAssigns = 1
        /\ cmdPod = selectedPod

\* The pod disappeared after it had been polled more than once.
C22_Witness ==
    /\ ready.err = "fetch"
    /\ ready.polls > 1
    /\ pc = "fatal"

\* C23: whatever a port mapping meets (an unsupported resource type, a
\* failed pod listing, no running pod, a tunnel that times out), the step
\* leaves the run in startPortForwarding with one more mapping seen, and
\* the run leaves startPortForwarding only for startSync or enterTerminal,
\* after the last mapping when port forwarding is on.
C23_BootstrapNeverAborts ==
    [][pc = "portForwarding" =>
          /\ pc' \in {"portForwarding", "startSync", "enterTerminal"}
          /\ pc' = "portForwarding" => pfIdx' = pfIdx + 1 /\ pfIdx' <= Len(pfConf)
          /\ pc' # "portForwarding" =>
                /\ flags.portforwarding => pfIdx = Len(pfConf)
                /\ pc' = IF flags.sync THEN "startSync" ELSE "enterTerminal"]_vars

\* A run has reached startSync although the tunnel of its first mapping did
\* not start in time; its second mapping, of an unsupported resource type,
\* was still seen.
C23_Witness ==
    /\ pc = "startSync"
    /\ flags.portforwarding
    /\ pfIdx = Len(pfConf)
    /\ pfLog = <<"timeout", "unsupported">>

\* The mappings seen so far that name a resource type other than pod or
\* carry a label selector.
SeenWithOutcome ==
    {k \in 1..pfIdx : pfConf[k].kind # "pod" \/ pfConf[k].selector}

\* C24: every port mapping that has been seen and that has a label selector
\* or an unsupported resource type has a reported outcome: as many reports
\* as such mappings.  The code reports nothing for a selector without a
\* running pod.
C24_EveryMappingReported ==
    flags.portforwarding => Len(pfLog) = Cardinality(SeenWithOutcome)

\* C25: in runs without the explicit build flag, the image whose Dockerfile
\* still has the modification time of its last successful build is never
\* built, whatever the earlier runs did: shouldRebuild never asks for it and
\* each run skips it.  The code rebuilds it after a run that found its
\* Dockerfile missing and saved the configuration for another image.
C25_UnchangedNeverRebuilt ==
    /\ outcome[Kept] \in {"none", "skipped"}
    /\ sr.called /\ sr.img = Kept => ~sr.ret

\* A pipe that is full while exec.Stream has more to write into it has a
\* drain reading from it, whatever the other stream does.
FullPipeIsDrained ==
    \A p \in {"stdout", "stderr"} :
        /\ session.mode = "buffered"
        /\ worker = "stream"
        /\ stream.todo[p] # <<>>
        /\ Len(pipes[p].buf) >= PipeCap
        => drains.on /\ ~drains[p].done

\* C26: once exec.Stream has ended, with or without an error, ExecBuffered
\* returns, under every fair interleaving of the goroutine and the two
\* drains, although the error is never delivered; and before the stream
\* ends a full pipe always has its own drain reading from it.
C26_ExecBufferedReturns ==
    /\ []FullPipeIsDrained
    /\ (session.mode = "buffered" /\ stream.st = "ended") ~> (session.pc = "returned")

\* ExecBuffered has returned both buffers after a stream that ended with a
\* transport error, which the goroutine is still trying to send.
C26_Witness ==
    /\ session.mode = "buffered"
    /\ session.pc = "returned"
    /\ stream.st = "ended"
    /\ stream.result = "transport"
    /\ worker = "send"
    /\ delivered = <<>>
    /\ session.ret.stdout # <<>>
    /\ session.ret.stderr # <<>>

====
